---- MODULE Spec2Model ----
(***************************************************************************)
(* FinForecast AI (src/app.py).                                            *)
(*                                                                         *)
(* The module models                                                       *)
(*   - fetch_financials: the priority chain FMP, SAHMK, EDGAR, Polygon,    *)
(*     yfinance, one step per provider block (Spec);                       *)
(*   - the st.cache_data(ttl = 2 h) wrapper around it and the script run   *)
(*     with its two session flags (SpecApp);                               *)
(*   - get_ticker (SpecTicker).                                            *)
(*                                                                         *)
(* Text is a sequence of one-character strings, so that endswith, "in",    *)
(* upper, isupper and isdigit are computed on the characters.  An optional *)
(* value (None / NaN) is the empty sequence, a present value v is <<v>>.   *)
(* A dict or a table row is a record; a missing key or column is a missing *)
(* field.                                                                  *)
(***************************************************************************)
EXTENDS Integers, Sequences, FiniteSets, TLC

VARIABLES
    ticker, fmp_key, sah_mk_key, polygon_key, edgar_email, \* arguments of the call
    edgarImported,   \* Company and set_identity are not None (lines 50-55)
    served,          \* the providers' answers, where the session fixes them
    pc,              \* position inside fetch_financials
    calls,           \* provider blocks entered by the current call, with their outcome
    resp,            \* what the provider entered last answered
    result,          \* the value the call returned, if it has returned
    raised,          \* an exception left fetch_financials
    warnings,        \* st.warning calls made by the current call
    cache,           \* st.cache_data entries: key -> [value, stored]
    computed,        \* history: key -> the last execution of the body for that key
    now,             \* clock, in seconds
    session_state,   \* st.session_state, a function on the keys present
    runPc,           \* position of the script run
    query, symbol, lookups, search, tpc   \* get_ticker: argument, return value, searches made, the search's answer, position

fetchVars == <<ticker, fmp_key, sah_mk_key, polygon_key, edgar_email, edgarImported,
               served, pc, calls, resp, result, raised, warnings>>
appVars == <<cache, computed, now, session_state, runPc>>
tickerVars == <<query, symbol, lookups, search, tpc>>
vars == <<fetchVars, appVars, tickerVars>>

---------------------------------------------------------------------------
(* Bounds of the model *)

MaxPeriods == 2      \* periods in one provider payload
MaxTicks == 3        \* clock ticks in one session
TickSeconds == 3600  \* seconds per clock tick
MaxQueryLen == 3     \* characters in a get_ticker query

---------------------------------------------------------------------------
(* Values *)

None == <<>>
Some(v) == <<v>>

SeqsUpTo(S, n) == UNION {[1..k -> S] : k \in 0..n}

HasKey(r, k) == k \in DOMAIN r

\* str.endswith
EndsWith(s, suf) ==
    /\ Len(s) >= Len(suf)
    /\ SubSeq(s, Len(s) - Len(suf) + 1, Len(s)) = suf

\* the operator "sub in s" on str
Contains(s, sub) ==
    \E i \in 1..(Len(s) - Len(sub) + 1) : SubSeq(s, i, i + Len(sub) - 1) = sub

DotSR == <<".", "S", "R">>
AtSign == <<"@">>

AAPL == <<"A", "A", "P", "L">>
Tadawul1120 == <<"1", "1", "2", "0", ".", "S", "R">>
Tickers == {AAPL, Tadawul1120}

Keys == {"", "key"}
Emails == {<<>>, <<"x">>, <<"x", "@", "y">>}

---------------------------------------------------------------------------
(* What the providers can answer *)

Date(y, m) == [year |-> y, month |-> m]

\* One period of an income statement as FMP, SAHMK, EDGAR and yfinance serve
\* it: a dated row; the eps key (column) may be missing.
P2021 ==
    [date |-> Date(2021, 12), revenue |-> Some(5), operatingIncome |-> Some(3),
     netIncome |-> Some(2000000000), eps |-> Some(2)]
P2020 ==
    [date |-> Date(2020, 12), revenue |-> Some(4), operatingIncome |-> Some(2),
     netIncome |-> Some(1000000000)]
P2020Blank ==
    [date |-> Date(2020, 3), revenue |-> None, operatingIncome |-> None,
     netIncome |-> None, eps |-> None]
Periods == {P2021, P2020, P2020Blank}

\* One filing as Polygon's client serves it: fiscal_year and the four values,
\* each of which may be None.
F2021 ==
    [fiscal_year |-> Some(2021), revenues |-> Some(5), operating_income_loss |-> Some(3),
     net_income_loss |-> Some(2000000000), basic_earnings_per_share |-> Some(2)]
F2020 ==
    [fiscal_year |-> Some(2020), revenues |-> Some(4), operating_income_loss |-> Some(2),
     net_income_loss |-> Some(1000000000), basic_earnings_per_share |-> None]
F2020Blank ==
    [fiscal_year |-> Some(2020), revenues |-> None, operating_income_loss |-> None,
     net_income_loss |-> None, basic_earnings_per_share |-> None]
FBlank ==
    [fiscal_year |-> None, revenues |-> None, operating_income_loss |-> None,
     net_income_loss |-> None, basic_earnings_per_share |-> None]
Filings == {F2021, F2020, F2020Blank, FBlank}

\* An HTTP provider (requests.get): the request raises, answers a status other
\* than 200, answers 200 with a body that is not the expected JSON, or answers
\* 200 with a list of periods.
HttpResponses(P) ==
    {[kind |-> k] : k \in {"exception", "status", "malformed"}}
        \cup {[kind |-> "ok", data |-> d] : d \in SeqsUpTo(P, MaxPeriods)}

\* A client-library provider: the library raises (any transport or status
\* error), hands back an object without the expected attributes or columns, or
\* hands back a list of periods.
SdkResponses(P) ==
    {[kind |-> k] : k \in {"exception", "malformed"}}
        \cup {[kind |-> "ok", data |-> d] : d \in SeqsUpTo(P, MaxPeriods)}

NoResp == [kind |-> "none"]

\* Any answer is possible unless the session fixes what the providers hold
Unfixed == [fixed |-> FALSE]

---------------------------------------------------------------------------
(* Frames *)

EmptyFrame == <<>>

Row(y, rev, oi, ni, e) ==
    [Year |-> y, Revenue |-> rev, Operating_Income |-> oi, Net_Income |-> ni, EPS |-> e]

RowNoEPS(y, rev, oi, ni) ==
    [Year |-> y, Revenue |-> rev, Operating_Income |-> oi, Net_Income |-> ni]

\* pd.to_datetime(...).dt.year
YearOf(date) == Some(date.year)

\* DataFrame built from a list of dicts: a key some dict lacks is NaN there
Cell(r, k) == IF HasKey(r, k) THEN r[k] ELSE None

AnyHasKey(data, k) == \E i \in 1..Len(data) : HasKey(data[i], k)

\* DataFrame.sort_values('Year'), no sort at all
SortValuesUnsorted(df) == {df}

\* DataFrame.sort_values('Year'): ascending, rows without a Year last in their
\* original order; the default sort is not stable, so rows of equal Year come
\* out in either order.
SortValues(df) ==
    LET n == Len(df)
        ordered(p) ==
            \A i, j \in 1..n : i < j =>
                \/ /\ df[p[i]].Year # None
                   /\ df[p[j]].Year # None
                   /\ df[p[i]].Year[1] <= df[p[j]].Year[1]
                \/ /\ df[p[i]].Year # None
                   /\ df[p[j]].Year = None
                \/ /\ df[p[i]].Year = None
                   /\ df[p[j]].Year = None
                   /\ p[i] < p[j]
    IN  {[i \in 1..n |-> df[p[i]]] : p \in {q \in Permutations(1..n) : ordered(q)}}

\* DataFrame.dropna(how="all"): drops the rows whose every column is NaN
DropNaAll(df) ==
    SelectSeq(df, LAMBDA r : \E k \in DOMAIN r : r[k] # None)

---------------------------------------------------------------------------
(* The body of each provider's try block, from the provider's answer to what
   the block does: it returns a frame, falls through to the code after the
   block, or raises inside the try. *)

Ret(v) == [kind |-> "return", value |-> v]
Fall == [kind |-> "fallthrough"]
Exc == [kind |-> "exception"]

\* lines 119-126
FmpRow(r) ==
    Row(YearOf(r.date), r.revenue, r.operatingIncome, r.netIncome, Cell(r, "eps"))

\* lines 114-127
FmpBody(r) ==
    IF r.kind = "exception" THEN {Exc}                \* requests.get raises
    ELSE IF r.kind = "status" THEN {Fall}             \* status_code != 200
    ELSE IF r.kind = "malformed" THEN {Exc}           \* resp.json() raises
    ELSE IF r.data = <<>> THEN {Fall}                 \* if data:
    ELSE IF ~AnyHasKey(r.data, "eps") THEN {Exc}      \* KeyError selecting the columns
    ELSE {Ret(v) : v \in SortValues([i \in 1..Len(r.data) |-> FmpRow(r.data[i])])}

Billion == 1000000000

\* line 151: df['Net Income'] / 1_000_000_000 (exact on the model's values)
ApproxEPS(ni) == IF ni = None THEN None ELSE Some(ni[1] \div Billion)

\* lines 134-155
SahmkBody(r) ==
    IF r.kind = "exception" THEN {Exc}
    ELSE IF r.kind = "status" THEN {Fall}
    ELSE IF r.kind = "malformed" THEN {Exc}           \* resp.json() or data.get raises
    ELSE IF r.data = <<>> THEN {Exc}                  \* KeyError: no 'report_date' column
    ELSE LET hasEps == AnyHasKey(r.data, "eps")
             row(x) == Row(YearOf(x.date), x.revenue, x.operatingIncome, x.netIncome,
                           IF hasEps THEN Cell(x, "eps") ELSE ApproxEPS(x.netIncome))
         IN  {Ret(v) : v \in SortValues([i \in 1..Len(r.data) |-> row(r.data[i])])}

\* lines 162-182
EdgarBody(r) ==
    IF r.kind = "exception" THEN {Exc}                \* set_identity, Company or get_financials raises
    ELSE IF r.kind = "malformed" THEN {Exc}           \* KeyError: a column of cols is missing
    ELSE IF r.data = <<>> THEN {Fall}                 \* inc.empty
    ELSE LET hasEps == AnyHasKey(r.data, "eps")
             row(x) == IF hasEps
                       THEN Row(YearOf(x.date), x.revenue, x.operatingIncome, x.netIncome,
                                Cell(x, "eps"))
                       ELSE RowNoEPS(YearOf(x.date), x.revenue, x.operatingIncome, x.netIncome)
         IN  {Ret(v) : v \in SortValues([i \in 1..Len(r.data) |-> row(r.data[i])])}

\* lines 195-202
PolygonRow(f) ==
    Row(f.fiscal_year, f.revenues, f.operating_income_loss, f.net_income_loss,
        f.basic_earnings_per_share)

\* lines 189-205
PolygonBody(r) ==
    IF r.kind = "exception" THEN {Exc}                \* the client raises
    ELSE IF r.kind = "malformed" THEN {Exc}           \* AttributeError on f.financials...
    ELSE LET df == DropNaAll([i \in 1..Len(r.data) |-> PolygonRow(r.data[i])])
         IN  IF df = <<>> THEN {Fall}                 \* df.empty
             ELSE {Ret(v) : v \in SortValues(df)}

\* lines 211-221
YfinanceBody(r) ==
    IF r.kind = "exception" THEN {Exc}                \* stock.income_stmt raises
    ELSE IF r.kind = "malformed" THEN {Exc}           \* the index holds no dates
    ELSE IF r.data = <<>> THEN {Fall}                 \* income.empty
    ELSE LET row(x) == Row(YearOf(x.date), x.revenue, x.operatingIncome, x.netIncome,
                           Cell(x, "eps"))            \* income.get(...) of a missing column is None
         IN  {Ret(v) : v \in SortValues(DropNaAll([i \in 1..Len(r.data) |-> row(r.data[i])]))}

\* the try body of provider p's block
BodyOf(p, r) ==
    CASE p = "FMP" -> FmpBody(r)
      [] p = "SAHMK" -> SahmkBody(r)
      [] p = "EDGAR" -> EdgarBody(r)
      [] p = "Polygon" -> PolygonBody(r)
      [] p = "yfinance" -> YfinanceBody(r)

\* what provider p can answer: FMP and SAHMK are asked with requests.get, the
\* others through their client library
ResponsesOf(p) ==
    CASE p \in {"FMP", "SAHMK"} -> HttpResponses(Periods)
      [] p = "Polygon" -> SdkResponses(Filings)
      [] OTHER -> SdkResponses(Periods)

---------------------------------------------------------------------------
(* The guards of the provider blocks *)

\* line 112
FmpAvailable(key) == key # ""

\* line 132 without the ticker test
SahmkAvailableAnyTicker(key, t) == key # ""

\* line 132
SahmkAvailable(key, t) == key # "" /\ EndsWith(t, DotSR)

\* line 160
EdgarAvailable(imported, t, email) ==
    imported /\ ~EndsWith(t, DotSR) /\ Contains(email, AtSign)

\* line 187
PolygonAvailable(key) == key # ""

Order == <<"FMP", "SAHMK", "EDGAR", "Polygon", "yfinance">>

Rank(p) == CHOOSE i \in 1..Len(Order) : Order[i] = p

Available(p) ==
    CASE p = "FMP" -> FmpAvailable(fmp_key)
      [] p = "SAHMK" -> SahmkAvailable(sah_mk_key, ticker)
      [] p = "EDGAR" -> EdgarAvailable(edgarImported, ticker, edgar_email)
      [] p = "Polygon" -> PolygonAvailable(polygon_key)
      [] p = "yfinance" -> TRUE

\* the chain with the EDGAR block placed after Polygon
AfterEdgarLate(p) ==
    CASE p = "FMP" -> "SAHMK"
      [] p = "SAHMK" -> "Polygon"
      [] p = "Polygon" -> "EDGAR"
      [] p = "EDGAR" -> "yfinance"
      [] p = "yfinance" -> "done"

\* the chain that leaves SAHMK out
AfterNoSahmk(p) ==
    CASE p = "FMP" -> "EDGAR"
      [] p = "SAHMK" -> "EDGAR"
      [] p = "EDGAR" -> "Polygon"
      [] p = "Polygon" -> "yfinance"
      [] p = "yfinance" -> "done"

\* Where control goes when the block of p is skipped, falls through or has its
\* exception caught: the next block in the text, and after the last one the
\* final return (line 225).
After(p) ==
    CASE p = "FMP" -> "SAHMK"
      [] p = "SAHMK" -> "EDGAR"
      [] p = "EDGAR" -> "Polygon"
      [] p = "Polygon" -> "yfinance"
      [] p = "yfinance" -> "done"

\* an except clause missing from the Polygon block
CatchesAllButPolygon(p) == p # "Polygon"

\* lines 128, 156, 183, 206, 222: every block ends in "except Exception"
Catches(p) == TRUE

\* st.warning in the Polygon handler too
WarnsEdgarAndPolygon(p) == p \in {"EDGAR", "Polygon"}

\* lines 183-184: only the EDGAR handler calls st.warning; the others pass
Warns(p) == p = "EDGAR"

---------------------------------------------------------------------------
(* The steps of fetch_financials *)

Returned(v) == [returned |-> TRUE, value |-> v]
NotReturned == [returned |-> FALSE]

\* control reaches the block named next, or the final "return pd.DataFrame()"
Continue(next) ==
    /\ pc' = next
    /\ result' = IF next = "done" THEN Returned(EmptyFrame) ELSE result

\* the guard of block p is false
Skip(p) ==
    /\ Continue(After(p))
    /\ UNCHANGED <<calls, resp, raised, warnings>>

\* the answers provider p can give to this call
Answers(p) == IF served.fixed THEN {served.answer[ticker][p]} ELSE ResponsesOf(p)

\* block p is entered: the provider answers r and the body does o
Attempt(p) ==
    \E r \in Answers(p) : \E o \in BodyOf(p, r) :
        /\ resp' = r
        /\ calls' = Append(calls,
               [provider |-> p,
                outcome |-> IF o.kind # "exception" THEN o.kind
                            ELSE IF Catches(p) THEN "caught" ELSE "raised"])
        /\ IF o.kind = "return"
           THEN /\ result' = Returned(o.value)
                /\ pc' = "done"
                /\ UNCHANGED <<raised, warnings>>
           ELSE IF o.kind = "exception" /\ ~Catches(p)
           THEN /\ raised' = TRUE
                /\ pc' = "done"
                /\ UNCHANGED <<result, warnings>>
           ELSE /\ warnings' = IF o.kind = "exception" /\ Warns(p)
                               THEN warnings + 1 ELSE warnings
                /\ Continue(After(p))
                /\ UNCHANGED raised

argVars == <<ticker, fmp_key, sah_mk_key, polygon_key, edgar_email, edgarImported, served>>

\* lines 111-129
TryFMP ==
    /\ pc = "FMP"
    /\ IF FmpAvailable(fmp_key)
       THEN Attempt("FMP")
       ELSE Skip("FMP")
    /\ UNCHANGED <<argVars, appVars, tickerVars>>

\* lines 131-157
TrySAHMK ==
    /\ pc = "SAHMK"
    /\ IF SahmkAvailable(sah_mk_key, ticker)
       THEN Attempt("SAHMK")
       ELSE Skip("SAHMK")
    /\ UNCHANGED <<argVars, appVars, tickerVars>>

\* lines 159-184
TryEDGAR ==
    /\ pc = "EDGAR"
    /\ IF EdgarAvailable(edgarImported, ticker, edgar_email)
       THEN Attempt("EDGAR")
       ELSE Skip("EDGAR")
    /\ UNCHANGED <<argVars, appVars, tickerVars>>

\* lines 186-207
TryPolygon ==
    /\ pc = "Polygon"
    /\ IF PolygonAvailable(polygon_key)
       THEN Attempt("Polygon")
       ELSE Skip("Polygon")
    /\ UNCHANGED <<argVars, appVars, tickerVars>>

\* lines 209-225
TryYfinance ==
    /\ pc = "yfinance"
    /\ Attempt("yfinance")
    /\ UNCHANGED <<argVars, appVars, tickerVars>>

FetchStep == TryFMP \/ TrySAHMK \/ TryEDGAR \/ TryPolygon \/ TryYfinance

---------------------------------------------------------------------------
(* Spec: one execution of the body of fetch_financials, on any arguments *)

EmptyMap == [k \in {} |-> FALSE]

AppIdle ==
    /\ cache = EmptyMap
    /\ computed = EmptyMap
    /\ now = 0
    /\ session_state = EmptyMap
    /\ runPc = "none"

TickerIdle ==
    /\ query = <<>>
    /\ symbol = <<>>
    /\ lookups = 0
    /\ search = [kind |-> "none"]
    /\ tpc = "none"

Init ==
    /\ ticker \in Tickers
    /\ fmp_key \in Keys
    /\ sah_mk_key \in Keys
    /\ polygon_key \in Keys
    /\ edgar_email \in Emails
    /\ edgarImported \in BOOLEAN
    /\ served = Unfixed
    /\ pc = "FMP"
    /\ calls = <<>>
    /\ resp = NoResp
    /\ result = NotReturned
    /\ raised = FALSE
    /\ warnings = 0
    /\ AppIdle
    /\ TickerIdle

Next == FetchStep

Spec == Init /\ [][Next]_vars

---------------------------------------------------------------------------
(* get_ticker, lines 80-95 *)

Alphabet == {"a", "l", "A", "L", "T", "S", "R", "1", "."}
Lower == {"a", "l"}
Letters == {"a", "l", "A", "L", "T", "S", "R"}
Digits == {"1", "2", "0"}

Queries == SeqsUpTo(Alphabet, MaxQueryLen)

UpperChar(c) == CASE c = "a" -> "A" [] c = "l" -> "L" [] OTHER -> c

\* str.upper
Upper(s) == [i \in 1..Len(s) |-> UpperChar(s[i])]

\* str.isupper: at least one cased character and no lowercase one
IsUpper(s) ==
    /\ \E i \in 1..Len(s) : s[i] \in Letters
    /\ \A i \in 1..Len(s) : s[i] \notin Lower

\* str.isdigit: at least one character and all of them digits
IsDigit(s) == s # <<>> /\ \A i \in 1..Len(s) : s[i] \in Digits

\* query.replace(".", "")
RemoveDots(s) == SelectSeq(s, LAMBDA c : c # ".")

MarketSuffixes == {<<".", "S", "R">>, <<".", "T">>, <<".", "L">>}

\* lines 81-83
LooksLikeTicker(q) ==
    \/ \E x \in MarketSuffixes : Contains(Upper(q), x)
    \/ IsUpper(q)
    \/ IsDigit(RemoveDots(q))

Symbols == {<<"A", "A", "P", "L">>, <<"a">>}

\* What yf.utils.get_json can do: raise, return something that is no dict, or
\* return a dict, with or without "quotes", whose first quote has a symbol or not.
Lookups ==
    {[kind |-> "exception"], [kind |-> "nodict"],
     [kind |-> "dict", data |-> EmptyMap],
     [kind |-> "dict", data |-> [quotes |-> <<>>]],
     [kind |-> "dict", data |-> [quotes |-> <<EmptyMap>>]]}
        \cup {[kind |-> "dict", data |-> [quotes |-> <<[symbol |-> y]>>]] : y \in Symbols}

NoLookup == [kind |-> "none"]

\* lines 85-95: the try block and the final return
SearchSymbol(q, look) ==
    IF look.kind = "exception" THEN Upper(q)              \* except Exception: pass
    ELSE IF look.kind = "nodict" THEN Upper(q)            \* data.get raises, caught
    ELSE IF ~HasKey(look.data, "quotes") THEN Upper(q)    \* data.get("quotes") is None
    ELSE IF look.data.quotes = <<>> THEN Upper(q)
    ELSE IF ~HasKey(look.data.quotes[1], "symbol") THEN Upper(q)   \* KeyError, caught
    ELSE look.data.quotes[1].symbol

\* lines 80-95: the value returned and the searches made
GetTicker(q, look) ==
    IF LooksLikeTicker(q)
    THEN [value |-> Upper(q), lookups |-> 0, search |-> NoLookup]
    ELSE [value |-> SearchSymbol(q, look), lookups |-> 1, search |-> look]

FetchIdle ==
    /\ ticker = <<>>
    /\ fmp_key = ""
    /\ sah_mk_key = ""
    /\ polygon_key = ""
    /\ edgar_email = <<>>
    /\ edgarImported = FALSE
    /\ served = Unfixed
    /\ pc = "idle"
    /\ calls = <<>>
    /\ resp = NoResp
    /\ result = NotReturned
    /\ raised = FALSE
    /\ warnings = 0

InitTicker ==
    /\ query \in Queries
    /\ symbol = <<>>
    /\ lookups = 0
    /\ search = NoLookup
    /\ tpc = "call"
    /\ FetchIdle
    /\ AppIdle

CallGetTicker ==
    /\ tpc = "call"
    /\ \E look \in Lookups :
         LET r == GetTicker(query, look)
         IN  /\ symbol' = r.value
             /\ lookups' = r.lookups
             /\ search' = r.search
    /\ tpc' = "done"
    /\ UNCHANGED <<query, fetchVars, appVars>>

NextTicker == CallGetTicker

SpecTicker == InitTicker /\ [][NextTicker]_vars

---------------------------------------------------------------------------
(* The script run and the cache around fetch_financials *)

\* line 109: ttl=3600 * 2
ttl == 3600 * 2

\* the arguments st.cache_data hashes into the key of an entry
CacheKey == <<ticker, fmp_key, sah_mk_key, polygon_key, edgar_email>>

\* an entry that expires after one hour
FreshOneHour(e, t) == t - e.stored < 3600

\* an entry is served while it is younger than ttl
Fresh(e, t) == t - e.stored < ttl

\* lines 62-65
SetDefault(s, k, v) == IF k \in DOMAIN s THEN s ELSE s @@ (k :> v)

\* st.session_state.get
Get(s, k, d) == IF k \in DOMAIN s THEN s[k] ELSE d

\* line 228
Guard(s) == Get(s, "run_analysis", FALSE) \/ "data_loaded" \in DOMAIN s

\* The secrets the app is deployed with (lines 74-77): every key configured
\* and the EDGAR packages installed, or nothing configured (the keys default
\* to "", EDGAR_EMAIL to an address) and the packages missing
AppSecrets ==
    { [fmp |-> "key", sahmk |-> "key", polygon |-> "key", email |-> <<"x", "@", "y">>,
       edgar |-> TRUE],
      [fmp |-> "", sahmk |-> "", polygon |-> "", email |-> <<"x", "@", "y">>,
       edgar |-> FALSE] }

\* What the providers hold during one session of the app: the providers
\* ranked before the k-th fail, each in its own way, and the others serve the
\* statements of the company asked for.
Failure(p) ==
    CASE p = "FMP" -> [kind |-> "status"]
      [] p = "SAHMK" -> [kind |-> "malformed"]
      [] p = "EDGAR" -> [kind |-> "exception"]
      [] p = "Polygon" -> [kind |-> "ok", data |-> <<FBlank>>]
      [] p = "yfinance" -> [kind |-> "ok", data |-> <<>>]

Statements(p, t) ==
    IF p = "Polygon"
    THEN [kind |-> "ok", data |-> IF t = AAPL THEN <<F2021, F2020>> ELSE <<F2020Blank>>]
    ELSE [kind |-> "ok", data |-> IF t = AAPL THEN <<P2021, P2020>> ELSE <<P2021>>]

AppWorlds ==
    { [t \in Tickers |->
         [p \in {Order[i] : i \in 1..Len(Order)} |->
             IF Rank(p) < k THEN Failure(p) ELSE Statements(p, t)]] :
      k \in 1..(Len(Order) + 1) }

InitApp ==
    /\ \E c \in AppSecrets :
         /\ fmp_key = c.fmp
         /\ sah_mk_key = c.sahmk
         /\ polygon_key = c.polygon
         /\ edgar_email = c.email
         /\ edgarImported = c.edgar
    /\ \E w \in AppWorlds : served = [fixed |-> TRUE, answer |-> w]
    /\ ticker = <<>>
    /\ pc = "idle"
    /\ calls = <<>>
    /\ resp = NoResp
    /\ result = NotReturned
    /\ raised = FALSE
    /\ warnings = 0
    /\ cache = EmptyMap
    /\ computed = EmptyMap
    /\ now = 0
    /\ session_state = EmptyMap
    /\ runPc = "idle"
    /\ TickerIdle

\* lines 61-106 and the condition of line 228: one rerun of the script up to
\* the analysis block
ScriptStart ==
    /\ runPc = "idle"
    /\ \E q \in Tickers, look \in Lookups, pressed \in BOOLEAN :
         LET s1 == SetDefault(session_state, "run_analysis", FALSE)
             s2 == SetDefault(s1, "data_loaded", FALSE)
             s3 == IF pressed THEN [s2 EXCEPT !["run_analysis"] = TRUE] ELSE s2
         IN  /\ ticker' = GetTicker(q, look).value
             /\ session_state' = s3
             /\ runPc' = IF Guard(s3) THEN "fetch" ELSE "idle"
    /\ UNCHANGED <<fmp_key, sah_mk_key, polygon_key, edgar_email, edgarImported, served,
                   pc, calls, resp, result, raised, warnings,
                   cache, computed, now, tickerVars>>

\* line 231 through the st.cache_data wrapper: a fresh entry is returned
\* without running the body, otherwise the body starts
CachedCall ==
    /\ runPc = "fetch"
    /\ pc = "idle"
    /\ IF CacheKey \in DOMAIN cache /\ Fresh(cache[CacheKey], now)
       THEN /\ result' = Returned(cache[CacheKey].value)
            /\ pc' = "returned"
       ELSE /\ result' = NotReturned
            /\ pc' = "FMP"
    /\ UNCHANGED <<argVars, calls, resp, raised, warnings, appVars, tickerVars>>

Put(f, k, v) == [x \in DOMAIN f \cup {k} |-> IF x = k THEN v ELSE f[x]]

\* the wrapper stores what the body returned; an exception out of the body
\* is stored nowhere and ends the run in the handler of line 259
CacheStore ==
    /\ runPc = "fetch"
    /\ pc = "done"
    /\ IF raised
       THEN /\ pc' = "idle"
            /\ runPc' = "idle"
            /\ raised' = FALSE
            /\ calls' = <<>>
            /\ resp' = NoResp
            /\ warnings' = 0
            /\ UNCHANGED <<cache, computed, result>>
       ELSE /\ cache' = Put(cache, CacheKey, [value |-> result.value, stored |-> now])
            /\ computed' = Put(computed,
                               <<ticker, fmp_key, sah_mk_key, polygon_key, edgar_email>>,
                               [value |-> result.value, at |-> now])
            /\ pc' = "returned"
            /\ UNCHANGED <<runPc, raised, calls, resp, warnings, result>>
    /\ UNCHANGED <<argVars, now, session_state, tickerVars>>

\* lines 233-260: the rest of the analysis block; stock.info may raise, and
\* then line 257 is not reached
Analysis ==
    /\ runPc = "fetch"
    /\ pc = "returned"
    /\ \E infoRaises \in BOOLEAN :
         session_state' = IF infoRaises THEN session_state
                          ELSE [session_state EXCEPT !["data_loaded"] = TRUE]
    /\ runPc' = "idle"
    /\ pc' = "idle"
    /\ result' = NotReturned
    /\ calls' = <<>>
    /\ resp' = NoResp
    /\ warnings' = 0
    /\ UNCHANGED <<argVars, raised, cache, computed, now, tickerVars>>

\* time passes between two runs
Tick ==
    /\ runPc = "idle"
    /\ now < MaxTicks * TickSeconds
    /\ now' = now + TickSeconds
    /\ UNCHANGED <<fetchVars, cache, computed, session_state, runPc, tickerVars>>

NextApp == ScriptStart \/ CachedCall \/ FetchStep \/ CacheStore \/ Analysis \/ Tick

SpecApp == InitApp /\ [][NextApp]_vars

---------------------------------------------------------------------------
(* Properties of fetch_financials, checked under Spec *)

Attempted(p) == \E i \in 1..Len(calls) : calls[i].provider = p

Failed(p) ==
    \E i \in 1..Len(calls) :
        calls[i].provider = p /\ calls[i].outcome \in {"fallthrough", "caught"}

NoneReturned == \A i \in 1..Len(calls) : calls[i].outcome # "return"

\* C1: whatever the ticker, the credentials and the providers' behaviour, no
\* exception leaves fetch_financials and the call returns a value; when no
\* provider returned (each was skipped, failed or yielded nothing) the value
\* is the empty frame.
C1_NeverRaises ==
    /\ ~raised
    /\ \A i \in 1..Len(calls) : calls[i].outcome # "raised"
    /\ pc = "done" =>
          /\ result.returned
          /\ NoneReturned => result.value = EmptyFrame

C1_Witness ==
    /\ pc = "done"
    /\ \E i \in 1..Len(calls) : calls[i].outcome = "caught"
    /\ \E i \in 1..Len(calls) : calls[i].outcome = "fallthrough"
    /\ ~Attempted("FMP")
    /\ result = Returned(EmptyFrame)

\* C2: first success wins, with no mixing.  When the call has ended, every
\* provider ranked before the one that returned (every provider, if none
\* returned) was unavailable or was attempted and failed, and the value
\* returned is not empty and is exactly a normalized result of the answer of
\* the provider that returned.
C2_FirstSuccessWins ==
    pc = "done" =>
        /\ \A p \in {Order[i] : i \in 1..Len(Order)} :
              (NoneReturned \/ Rank(p) < Rank(calls[Len(calls)].provider))
                  => (~Available(p) \/ Failed(p))
        /\ ~NoneReturned =>
              /\ result.returned
              /\ result.value # EmptyFrame
              /\ Ret(result.value) \in BodyOf(calls[Len(calls)].provider, resp)

C2_Witness ==
    /\ pc = "done"
    /\ Len(calls) >= 3
    /\ calls[Len(calls)].provider = "Polygon"
    /\ calls[Len(calls)].outcome = "return"
    /\ Len(result.value) = 2

Years(df) == [i \in 1..Len(df) |-> df[i].Year]

\* C3, as stated: the records of a returned frame are strictly ascending by
\* Year, so no two records share a Year.
C3_StrictlyAscending ==
    (pc = "done" /\ result.returned) =>
        \A i, j \in 1..Len(result.value) :
            (i < j /\ Years(result.value)[i] # None /\ Years(result.value)[j] # None)
                => Years(result.value)[i][1] < Years(result.value)[j][1]

\* C3, amended: the records of a returned frame are in ascending Year order,
\* records without a Year last; records of the same Year may both be there.
C3_Ascending ==
    (pc = "done" /\ result.returned) =>
        \A i, j \in 1..Len(result.value) : i < j =>
            /\ Years(result.value)[i] = None => Years(result.value)[j] = None
            /\ (Years(result.value)[i] # None /\ Years(result.value)[j] # None)
                  => Years(result.value)[i][1] <= Years(result.value)[j][1]

C3_Witness ==
    /\ pc = "done"
    /\ result.returned
    /\ Len(result.value) = 2
    /\ resp.kind = "ok"
    /\ resp.data = <<P2020, P2020Blank>>
    /\ Years(result.value) = <<Some(2020), Some(2020)>>

\* C5: a provider block is entered only when its precondition holds: FMP with
\* a non-empty fmp_key; SAHMK with a non-empty sah_mk_key and a ticker ending
\* in .SR; EDGAR with the integration imported, a ticker not ending in .SR and
\* an edgar_email containing @; Polygon with a non-empty polygon_key.  A
\* precondition that fails raises nothing.
C5_Gating ==
    /\ Attempted("FMP") => fmp_key # ""
    /\ Attempted("SAHMK") =>
          /\ sah_mk_key # ""
          /\ Len(ticker) >= 3
          /\ SubSeq(ticker, Len(ticker) - 2, Len(ticker)) = <<".", "S", "R">>
    /\ Attempted("EDGAR") =>
          /\ edgarImported
          /\ ~(Len(ticker) >= 3
               /\ SubSeq(ticker, Len(ticker) - 2, Len(ticker)) = <<".", "S", "R">>)
          /\ \E i \in 1..Len(edgar_email) : edgar_email[i] = "@"
    /\ Attempted("Polygon") => polygon_key # ""
    /\ ~raised

C5_Witness ==
    /\ pc = "done"
    /\ sah_mk_key # ""
    /\ ticker = AAPL
    /\ edgarImported
    /\ edgar_email = <<"x">>
    /\ Attempted("FMP")
    /\ Attempted("Polygon")
    /\ ~Attempted("SAHMK")
    /\ ~Attempted("EDGAR")

\* C6: the blocks are entered in the order FMP, SAHMK, EDGAR, Polygon,
\* yfinance, each at most once; none is entered after one has returned; the
\* block control stands at comes after all those entered; and a call that ends
\* without a provider having returned has entered yfinance.
C6_Order ==
    /\ \A i, j \in 1..Len(calls) :
          i < j => Rank(calls[i].provider) < Rank(calls[j].provider)
    /\ \A i \in 1..Len(calls) : i < Len(calls) => calls[i].outcome # "return"
    /\ \A i \in 1..Len(calls) :
          pc \in {Order[k] : k \in 1..Len(Order)} => Rank(calls[i].provider) < Rank(pc)
    /\ pc \in {Order[k] : k \in 1..Len(Order)} => NoneReturned
    /\ (pc = "done" /\ NoneReturned) => Attempted("yfinance")

C6_Witness ==
    /\ pc = "done"
    /\ Len(calls) = 4
    /\ calls[1].provider = "FMP"
    /\ calls[2].provider = "EDGAR"
    /\ calls[3].provider = "Polygon"
    /\ calls[4].provider = "yfinance"
    /\ calls[4].outcome = "return"

AllFinancialsNull(r) ==
    /\ r.Revenue = None
    /\ r.Operating_Income = None
    /\ r.Net_Income = None
    /\ Cell(r, "EPS") = None

\* C7: no frame returned by fetch_financials holds a record whose Revenue,
\* Operating Income, Net Income and EPS are all null.
C7_NoBlankRecord ==
    (pc = "done" /\ result.returned) =>
        \A i \in 1..Len(result.value) : ~AllFinancialsNull(result.value[i])

EdgarWarnings ==
    Cardinality({i \in 1..Len(calls) :
                    calls[i].provider = "EDGAR" /\ calls[i].outcome = "caught"})

\* C9: the call has warned exactly when the EDGAR block was entered and its
\* exception caught (a caught exception of FMP, SAHMK, Polygon or yfinance
\* warns nothing), and after that warning control goes on to the Polygon block
\* (and past it to yfinance when there is no polygon_key), and the call ends
\* only with Polygon having returned or yfinance entered.
C9_OnlyEdgarWarns ==
    /\ warnings = EdgarWarnings
    /\ (calls # <<>> /\ calls[Len(calls)] = [provider |-> "EDGAR", outcome |-> "caught"])
          => \/ pc = "Polygon"
             \/ pc = "yfinance" /\ polygon_key = ""
    /\ (pc = "done" /\ warnings > 0) =>
          \/ Attempted("yfinance")
          \/ calls[Len(calls)] = [provider |-> "Polygon", outcome |-> "return"]

C9_Witness ==
    /\ pc = "done"
    /\ warnings = 1
    /\ \E i \in 1..Len(calls) : calls[i] = [provider |-> "FMP", outcome |-> "caught"]
    /\ \E i \in 1..Len(calls) : calls[i] = [provider |-> "Polygon", outcome |-> "caught"]
    /\ \E i \in 1..Len(calls) : calls[i] = [provider |-> "yfinance", outcome |-> "caught"]

---------------------------------------------------------------------------
(* Properties of the cached call and of the script run, checked under SpecApp *)

FreshnessWindow == 7200

CallKey == <<ticker, fmp_key, sah_mk_key, polygon_key, edgar_email>>

ComputedInWindow ==
    /\ CallKey \in DOMAIN computed
    /\ now - computed[CallKey].at < FreshnessWindow

\* C4: while a result computed for the same arguments is less than two hours
\* old, a call enters no provider block and returns that result, the empty
\* result included.
C4_CachedWithinWindow ==
    /\ pc \in {Order[k] : k \in 1..Len(Order)} \cup {"done"} => ~ComputedInWindow
    /\ calls # <<>> =>
          \/ ~ComputedInWindow
          \/ pc = "returned" /\ computed[CallKey].at = now
    /\ (pc = "returned" /\ ComputedInWindow) => result = Returned(computed[CallKey].value)

C4_Witness ==
    /\ pc = "returned"
    /\ calls = <<>>
    /\ CallKey \in DOMAIN computed
    /\ now > computed[CallKey].at
    /\ Cardinality(DOMAIN computed) = 2
    /\ result = Returned(EmptyFrame)

\* C10: a run calls fetch_financials only if run_analysis is true (the button
\* was pressed in this run or an earlier one) or data_loaded is true (an
\* earlier run finished loading).
C10_FetchOnlyOnRequest ==
    runPc = "fetch" =>
        \/ Get(session_state, "run_analysis", FALSE)
        \/ Get(session_state, "data_loaded", FALSE)

---------------------------------------------------------------------------
(* Property of get_ticker, checked under SpecTicker *)

\* all-uppercase, all-digit (dots aside, as numeric tickers are written), or
\* ending in one of the market suffixes
TickerLike(q) ==
    \/ IsUpper(q)
    \/ IsDigit(RemoveDots(q))
    \/ \E x \in MarketSuffixes : EndsWith(Upper(q), x)

HasTopMatch(a) ==
    /\ a.kind = "dict"
    /\ HasKey(a.data, "quotes")
    /\ a.data.quotes # <<>>
    /\ HasKey(a.data.quotes[1], "symbol")

\* C8: a query that is all-uppercase, all-digit or carries a market suffix
\* comes back uppercased with no search made; any other query makes exactly
\* one search and comes back as the top match's symbol, or uppercased when the
\* search raises, is malformed or has no quotes.
C8_Resolution ==
    tpc = "done" =>
        IF TickerLike(query)
        THEN symbol = Upper(query) /\ lookups = 0
        ELSE /\ lookups = 1
             /\ symbol = IF HasTopMatch(search) THEN search.data.quotes[1].symbol
                         ELSE Upper(query)

====
